---- MODULE Spec2Model ----
(***************************************************************************)
(* A model of dagster/cli/pipeline.py: the topology printer                *)
(* (print_pipeline, format_argument_dict) and the result-stream consumer   *)
(* with its metrics reporter (process_results_for_console,                 *)
(* print_metrics_to_console).                                              *)
(*                                                                         *)
(* A printed line is a record [indent, text]: indent is the number of      *)
(* leading blanks the format string produces and text is the sequence of   *)
(* the remaining pieces of the formatted string, literal pieces and        *)
(* substituted values alternating as in the format string.                 *)
(***************************************************************************)
EXTENDS Integers, Sequences, FiniteSets, TLC

VARIABLES
    pipeline_iter,   \* the lazy result stream handed to process_results_for_console
    context,         \* the metric store behind result.context
    pulled,          \* how many results the for loop has drawn from pipeline_iter
    results,         \* the local list `results`
    expIdx,          \* position of the inner loop over failed_expectation_results
    log,             \* the calls made to result.context.error, in order
    reporterCalls,   \* the arguments print_metrics_to_console was called with
    out,             \* the lines handed to `printer`, in order
    state,           \* where the execute command is
    exit_code,       \* the status the command ended with (-1: none yet)
    raised,          \* the exception that left process_results_for_console
    pipeline,        \* the PipelineDefinition handed to print_pipeline
    full,            \* print_pipeline's `full` argument
    solidIdx,        \* position of print_pipeline's loop over pipeline.solids
    ppc              \* where print_pipeline is

vars == <<pipeline_iter, context, pulled, results, expIdx, log, reporterCalls, out,
          state, exit_code, raised, pipeline, full, solidIdx, ppc>>

execVars == <<pipeline_iter, context, pulled, results, expIdx, log, reporterCalls,
              state, exit_code, raised>>

printVars == <<pipeline, full, solidIdx, ppc>>

----------------------------------------------------------------------------
(* Bounds *)

\* longest result stream
MaxResults == 3
\* longest accumulated sequence handed directly to the reporter
MaxReported == 2
\* most metric records in a store
MaxMetrics == 3
\* most solids in a pipeline
MaxSolids == 3

----------------------------------------------------------------------------
(* Generic helpers *)

RECURSIVE SeqsUpTo(_, _)
\* all sequences over S of length at most n
SeqsUpTo(S, n) ==
    IF n = 0 THEN {<<>>}
    ELSE LET shorter == SeqsUpTo(S, n - 1)
         IN  shorter \cup {Append(s, x) : s \in {t \in shorter : Len(t) = n - 1}, x \in S}

RECURSIVE Flatten(_)
\* concatenation of a sequence of sequences
Flatten(ss) == IF ss = <<>> THEN <<>> ELSE Head(ss) \o Flatten(Tail(ss))

NoException == "None"

----------------------------------------------------------------------------
(* Data the execute command works on *)

\* solids, as far as the reporter reads them: solid.name and solid.inputs[*].name
ExecSolidA == [name |-> "A", inputs |-> <<[name |-> "x"], [name |-> "y"]>>]
ExecSolidB == [name |-> "B", inputs |-> <<[name |-> "x"]>>]
ExecSolids == {ExecSolidA, ExecSolidB}

SuccessResult(s) ==
    [solid |-> s, success |-> TRUE, reason |-> "None",
     user_exception |-> NoException, failed_expectation_results |-> <<>>]

UserCodeErrorResult(s, e) ==
    [solid |-> s, success |-> FALSE, reason |-> "USER_CODE_ERROR",
     user_exception |-> e, failed_expectation_results |-> <<>>]

ExpectationFailureResult(s, fs) ==
    [solid |-> s, success |-> FALSE, reason |-> "EXPECTATION_FAILURE",
     user_exception |-> NoException, failed_expectation_results |-> fs]

\* a failed result whose reason is neither of the two the consumer tests for
OtherFailureResult(s) ==
    [solid |-> s, success |-> FALSE, reason |-> "FRAMEWORK_ERROR",
     user_exception |-> NoException, failed_expectation_results |-> <<>>]

\* the results a stream is drawn from
ResultPool ==
    {SuccessResult(s) : s \in ExecSolids}
    \cup {UserCodeErrorResult(ExecSolidA, "ValueError"),
          UserCodeErrorResult(ExecSolidB, "KeyError")}
    \cup {ExpectationFailureResult(ExecSolidA,
              <<[message |-> "no nulls"], [message |-> "too few rows"]>>),
          ExpectationFailureResult(ExecSolidB, <<>>)}
    \cup {OtherFailureResult(ExecSolidA)}

\* SolidExecutionResult.name
ResultName(result) == result.solid.name

\* the metric records a store is drawn from
MetricPool ==
    {[metric_name |-> "rows", value |-> "42", tags |-> [solid |-> "A", input |-> "x"]],
     [metric_name |-> "nulls", value |-> "0",
      tags |-> [solid |-> "A", input |-> "x", column |-> "c"]],
     [metric_name |-> "time", value |-> "1.2", tags |-> [solid |-> "A"]],
     [metric_name |-> "rows", value |-> "7", tags |-> [solid |-> "B", input |-> "x"]],
     [metric_name |-> "time", value |-> "0.3", tags |-> [solid |-> "B"]],
     [metric_name |-> "size", value |-> "3", tags |-> [solid |-> "A", input |-> "y"]]}

\* the two stores a run of the execute command is checked with
ExecStores ==
    {<<>>,
     <<[metric_name |-> "time", value |-> "1.2", tags |-> [solid |-> "A"]],
       [metric_name |-> "rows", value |-> "42", tags |-> [solid |-> "A", input |-> "x"]],
       [metric_name |-> "time", value |-> "0.3", tags |-> [solid |-> "B"]]>>}

\* context.metrics_matching_context: the records whose tags equal the query
metrics_matching_context(store, query) ==
    SelectSeq(store, LAMBDA m : m.tags = query)

\* context.metrics_covering_context: the records whose tags contain the query
metrics_covering_context(store, query) ==
    SelectSeq(store, LAMBDA m :
        \A k \in DOMAIN query : k \in DOMAIN m.tags /\ m.tags[k] = query[k])

----------------------------------------------------------------------------
(* print_metrics_to_console *)

\* '{indent}{metric_name}: {value}' with indent = ' ' * n
MetricLine(n, metric) ==
    [indent |-> n, text |-> <<metric.metric_name, ": ", metric.value>>]

MetricLines(n, metrics) ==
    [j \in 1..Len(metrics) |-> MetricLine(n, metrics[j])]

\* the mutant of InputBlock: the subheader is printed for every input
InputBlockAlways(store, result, input_def) ==
    LET metrics_for_input ==
            metrics_covering_context(store,
                [solid |-> ResultName(result), input |-> input_def.name])
    IN  <<[indent |-> 4, text |-> <<"Input ", input_def.name>>]>>
        \o MetricLines(8, metrics_for_input)

\* one turn of the loop over result.solid.inputs
InputBlock(store, result, input_def) ==
    LET metrics_for_input ==
            metrics_covering_context(store,
                [solid |-> ResultName(result), input |-> input_def.name])
    IN  IF metrics_for_input # <<>>
        THEN <<[indent |-> 4, text |-> <<"Input ", input_def.name>>]>>
             \o MetricLines(8, metrics_for_input)
        ELSE <<>>

\* one turn of the loop over results
ResultBlock(store, result) ==
    LET metrics_of_solid ==
            metrics_matching_context(store, [solid |-> ResultName(result)])
        inputs == result.solid.inputs
    IN  <<[indent |-> 0, text |-> <<"Metrics for ", ResultName(result)>>]>>
        \o Flatten([j \in 1..Len(inputs) |-> InputBlock(store, result, inputs[j])])
        \o MetricLines(4, metrics_of_solid)

\* the lines print_metrics_to_console hands to printer
print_metrics_to_console(store, rs) ==
    Flatten([j \in 1..Len(rs) |-> ResultBlock(store, rs[j])])

----------------------------------------------------------------------------
(* process_results_for_console *)

\* the result the for loop is holding
result == pipeline_iter[pulled]

\* the mutant of ErrorCall: the tag is lost
ErrorCallUntagged(r, expectation_result) ==
    [message |-> expectation_result.message, solid |-> "None"]

\* result.context.error(expectation_result.message, solid=result.solid.name)
ErrorCall(r, expectation_result) ==
    [message |-> expectation_result.message, solid |-> r.solid.name]

\* the mutant of Accumulate: the result goes to the front
AccumulateFront(rs, r) == <<r>> \o rs

\* results.append(result)
Accumulate(rs, r) == Append(rs, r)

\* the loop draws a successful result and appends it
PullSuccess ==
    /\ state = "Running"
    /\ pulled < Len(pipeline_iter)
    /\ LET r == pipeline_iter[pulled + 1]
       IN  /\ r.success
           /\ results' = Accumulate(results, r)
    /\ pulled' = pulled + 1
    /\ UNCHANGED <<pipeline_iter, context, expIdx, log, reporterCalls, out, state,
                   exit_code, raised>>
    /\ UNCHANGED printVars

\* the mutant of PullUserCodeError: the results so far are reported before the raise
PullUserCodeErrorReporting ==
    /\ state = "Running"
    /\ pulled < Len(pipeline_iter)
    /\ LET r == pipeline_iter[pulled + 1]
       IN  /\ ~r.success
           /\ r.reason = "USER_CODE_ERROR"
           /\ raised' = r.user_exception
    /\ pulled' = pulled + 1
    /\ reporterCalls' = Append(reporterCalls, results)
    /\ out' = out \o print_metrics_to_console(context, results)
    /\ state' = "Failed"
    /\ UNCHANGED <<pipeline_iter, context, results, expIdx, log, exit_code>>
    /\ UNCHANGED printVars

\* the loop draws a USER_CODE_ERROR result: raise result.user_exception
PullUserCodeError ==
    /\ state = "Running"
    /\ pulled < Len(pipeline_iter)
    /\ LET r == pipeline_iter[pulled + 1]
       IN  /\ ~r.success
           /\ r.reason = "USER_CODE_ERROR"
           /\ raised' = r.user_exception
    /\ pulled' = pulled + 1
    /\ state' = "Failed"
    /\ UNCHANGED <<pipeline_iter, context, results, expIdx, log, reporterCalls, out,
                   exit_code>>
    /\ UNCHANGED printVars

\* the loop draws an EXPECTATION_FAILURE result and enters the loop over
\* result.failed_expectation_results
PullExpectationFailure ==
    /\ state = "Running"
    /\ pulled < Len(pipeline_iter)
    /\ LET r == pipeline_iter[pulled + 1]
       IN  /\ ~r.success
           /\ r.reason = "EXPECTATION_FAILURE"
    /\ pulled' = pulled + 1
    /\ expIdx' = 1
    /\ state' = "Logging"
    /\ UNCHANGED <<pipeline_iter, context, results, log, reporterCalls, out,
                   exit_code, raised>>
    /\ UNCHANGED printVars

\* one turn of the loop over result.failed_expectation_results
LogFailedExpectation ==
    /\ state = "Logging"
    /\ expIdx <= Len(result.failed_expectation_results)
    /\ log' = Append(log, ErrorCall(result, result.failed_expectation_results[expIdx]))
    /\ expIdx' = expIdx + 1
    /\ UNCHANGED <<pipeline_iter, context, pulled, results, reporterCalls, out, state,
                   exit_code, raised>>
    /\ UNCHANGED printVars

\* a mutant of ClickExit: exit(1) returns, the result is appended and the loop goes on
ClickExitReturns ==
    /\ state = "Logging"
    /\ expIdx > Len(result.failed_expectation_results)
    /\ results' = Accumulate(results, result)
    /\ state' = "Running"
    /\ UNCHANGED <<pipeline_iter, context, pulled, expIdx, log, reporterCalls, out,
                   exit_code, raised>>
    /\ UNCHANGED printVars

\* a mutant of ClickExit: the loop is left, the report is printed, then exit(1)
ClickExitAfterReport ==
    /\ state = "Logging"
    /\ expIdx > Len(result.failed_expectation_results)
    /\ results' = Accumulate(results, result)
    /\ reporterCalls' = Append(reporterCalls, results')
    /\ out' = out \o print_metrics_to_console(context, results')
    /\ exit_code' = 1
    /\ state' = "Aborted"
    /\ UNCHANGED <<pipeline_iter, context, pulled, expIdx, log, raised>>
    /\ UNCHANGED printVars

\* click.get_current_context().exit(1): the command runs under click, so there is a
\* current context; its exit raises, so neither results.append nor
\* print_metrics_to_console is reached and the command ends with status 1
ClickExit ==
    /\ state = "Logging"
    /\ expIdx > Len(result.failed_expectation_results)
    /\ exit_code' = 1
    /\ state' = "Aborted"
    /\ UNCHANGED <<pipeline_iter, context, pulled, results, expIdx, log, reporterCalls,
                   out, raised>>
    /\ UNCHANGED printVars

\* the loop draws a failed result whose reason is neither USER_CODE_ERROR nor
\* EXPECTATION_FAILURE: no branch is taken and the result is appended
PullOtherFailure ==
    /\ state = "Running"
    /\ pulled < Len(pipeline_iter)
    /\ LET r == pipeline_iter[pulled + 1]
       IN  /\ ~r.success
           /\ r.reason # "USER_CODE_ERROR"
           /\ r.reason # "EXPECTATION_FAILURE"
           /\ results' = Accumulate(results, r)
    /\ pulled' = pulled + 1
    /\ UNCHANGED <<pipeline_iter, context, expIdx, log, reporterCalls, out, state,
                   exit_code, raised>>
    /\ UNCHANGED printVars

\* the stream is exhausted: print_metrics_to_console(results, printer), and the
\* command returns
StopIteration ==
    /\ state = "Running"
    /\ pulled = Len(pipeline_iter)
    /\ reporterCalls' = Append(reporterCalls, results)
    /\ out' = out \o print_metrics_to_console(context, results)
    /\ exit_code' = 0
    /\ state' = "Completed"
    /\ UNCHANGED <<pipeline_iter, context, pulled, results, expIdx, log, raised>>
    /\ UNCHANGED printVars

\* the pipeline the execute specifications leave untouched
NoPipeline == [name |-> "None", description |-> "None", solids |-> <<>>]

PrintIdle ==
    /\ pipeline = NoPipeline
    /\ full = FALSE
    /\ solidIdx = 0
    /\ ppc = "idle"

\* do_execute_command has built pipeline_iter and calls process_results_for_console
Init ==
    /\ pipeline_iter \in SeqsUpTo(ResultPool, MaxResults)
    /\ context \in ExecStores
    /\ pulled = 0
    /\ results = <<>>
    /\ expIdx = 0
    /\ log = <<>>
    /\ reporterCalls = <<>>
    /\ out = <<>>
    /\ state = "Running"
    /\ exit_code = -1
    /\ raised = NoException
    /\ PrintIdle

Next ==
    \/ PullSuccess
    \/ PullUserCodeError
    \/ PullExpectationFailure
    \/ LogFailedExpectation
    \/ ClickExit
    \/ PullOtherFailure
    \/ StopIteration

Spec == Init /\ [][Next]_vars

----------------------------------------------------------------------------
(* The reporter on its own: any accumulated sequence, any store *)

\* the results print_metrics_to_console reads: solid and name only
ReportedPool == {SuccessResult(s) : s \in ExecSolids} \cup {OtherFailureResult(ExecSolidA)}

InitReport ==
    /\ results \in SeqsUpTo(ReportedPool, MaxReported)
    /\ context \in SeqsUpTo(MetricPool, MaxMetrics)
    /\ pipeline_iter = results
    /\ pulled = Len(results)
    /\ expIdx = 0
    /\ log = <<>>
    /\ reporterCalls = <<>>
    /\ out = <<>>
    /\ state = "Reporting"
    /\ exit_code = -1
    /\ raised = NoException
    /\ PrintIdle

\* print_metrics_to_console(results, printer)
PrintMetrics ==
    /\ state = "Reporting"
    /\ reporterCalls' = Append(reporterCalls, results)
    /\ out' = out \o print_metrics_to_console(context, results)
    /\ state' = "Reported"
    /\ UNCHANGED <<pipeline_iter, context, pulled, results, expIdx, log, exit_code, raised>>
    /\ UNCHANGED printVars

NextReport == PrintMetrics

SpecReport == InitReport /\ [][NextReport]_vars

----------------------------------------------------------------------------
(* Data the print command works on *)

\* None, and a reference held in an optional field
None == <<>>
Some(x) == <<x>>

ArgumentDefinition(type_name) == [dagster_type |-> [name |-> type_name]]

\* an argument_def_dict is the sequence of its items, in the order items() gives them
CsvArgs == <<[key |-> "path", value |-> ArgumentDefinition("Path")]>>
TableArgs == <<[key |-> "table", value |-> ArgumentDefinition("String")],
               [key |-> "schema", value |-> ArgumentDefinition("String")]>>

CsvSource == [source_type |-> "CSV", argument_def_dict |-> CsvArgs]
TableSource == [source_type |-> "TABLE", argument_def_dict |-> TableArgs]
CsvMaterialization == [name |-> "CSV", argument_def_dict |-> CsvArgs]
NullMaterialization == [name |-> "NULL", argument_def_dict |-> <<>>]

InputDefinition(n, dep, srcs) == [name |-> n, depends_on |-> dep, sources |-> srcs]

SolidDefinition(n, ins, mats) ==
    [name |-> n, inputs |-> ins, output |-> [materializations |-> mats]]

\* the solids a pipeline is drawn from; an input's depends_on is the solid it names
SolidLoad ==
    SolidDefinition("load",
        <<InputDefinition("raw", None, <<CsvSource, TableSource>>)>>, <<>>)
SolidClean ==
    SolidDefinition("clean",
        <<InputDefinition("rows", Some([name |-> "load"]), <<>>)>>,
        <<CsvMaterialization>>)
SolidJoin ==
    SolidDefinition("join",
        <<InputDefinition("left", Some([name |-> "load"]), <<TableSource, CsvSource>>),
          InputDefinition("right", None, <<>>)>>,
        <<CsvMaterialization, NullMaterialization>>)
SolidConst == SolidDefinition("const", <<>>, <<>>)

SolidPool == {SolidLoad, SolidClean, SolidJoin, SolidConst}

\* the names of the solids the inputs of solid depend on
Producers(solid) ==
    {solid.inputs[j].depends_on[1].name :
        j \in {i \in 1..Len(solid.inputs) : solid.inputs[i].depends_on # None}}

\* solids have distinct names, and a solid comes after the solids it depends on
WellFormed(solids) ==
    /\ \A i, j \in 1..Len(solids) : i # j => solids[i].name # solids[j].name
    /\ \A i \in 1..Len(solids) :
           Producers(solids[i]) \subseteq {solids[j].name : j \in 1..(i - 1)}

Descriptions == {"None", "Loads the rows and cleans them."}

Pipelines ==
    {[name |-> "P", description |-> d, solids |-> ss] :
        d \in Descriptions,
        ss \in {t \in SeqsUpTo(SolidPool, MaxSolids) : WellFormed(t)}}

----------------------------------------------------------------------------
(* print_pipeline *)

Line(n, pieces) == [indent |-> n, text |-> pieces]

RECURSIVE JoinItems(_)
\* ', '.join(items), each item a sequence of pieces
JoinItems(items) ==
    IF items = <<>> THEN <<>>
    ELSE IF Len(items) = 1 THEN items[1]
    ELSE items[1] \o <<", ">> \o JoinItems(Tail(items))

\* format_argument_dict
format_argument_dict(arg_def_dict) ==
    JoinItems([j \in 1..Len(arg_def_dict) |->
        <<arg_def_dict[j].key, ": ", arg_def_dict[j].value.dagster_type.name>>])

\* 'Pipeline: {name} Description: {desc}'
HeaderLine(p) == Line(0, <<"Pipeline: ", p.name, " Description: ", p.description>>)

\* the if/else on input_def.depends_on
NameLine(input_def) ==
    IF input_def.depends_on # None
    THEN Line(12, <<"Name: ", input_def.name, " (depends on ",
                    input_def.depends_on[1].name, ")">>)
    ELSE Line(12, <<"Name: ", input_def.name>>)

\* '{indent}{input_name}({arg_list})' with indent * 5
SourceLine(source_def) ==
    Line(20, <<source_def.source_type, "(">>
             \o format_argument_dict(source_def.argument_def_dict) \o <<")">>)

\* the mutant of SourceLines: sources are listed only in the else branch
SourceLinesElseOnly(input_def) ==
    IF input_def.sources # <<>> /\ input_def.depends_on = None
    THEN <<Line(16, <<"Sources:">>)>>
         \o [j \in 1..Len(input_def.sources) |-> SourceLine(input_def.sources[j])]
    ELSE <<>>

\* the if on input_def.sources
SourceLines(input_def) ==
    IF input_def.sources # <<>>
    THEN <<Line(16, <<"Sources:">>)>>
         \o [j \in 1..Len(input_def.sources) |-> SourceLine(input_def.sources[j])]
    ELSE <<>>

\* one turn of the loop over solid.inputs
InputLines(input_def) == <<NameLine(input_def)>> \o SourceLines(input_def)

\* '{indent}{name}({arg_list})' with indent * 4
MaterializationLine(materialization_def) ==
    Line(16, <<materialization_def.name, "(">>
             \o format_argument_dict(materialization_def.argument_def_dict) \o <<")">>)

\* one turn of the loop over pipeline.solids
SolidLines(solid) ==
    <<Line(4, <<"Solid: ", solid.name>>), Line(8, <<"Inputs:">>)>>
    \o Flatten([j \in 1..Len(solid.inputs) |-> InputLines(solid.inputs[j])])
    \o <<Line(8, <<"Output:">>), Line(12, <<"Materializations:">>)>>
    \o [j \in 1..Len(solid.output.materializations) |->
            MaterializationLine(solid.output.materializations[j])]

ExecIdle ==
    /\ pipeline_iter = <<>>
    /\ context = <<>>
    /\ pulled = 0
    /\ results = <<>>
    /\ expIdx = 0
    /\ log = <<>>
    /\ reporterCalls = <<>>
    /\ state = "idle"
    /\ exit_code = -1
    /\ raised = NoException

\* print_command, or any caller of print_pipeline, has chosen pipeline and full
InitPrint ==
    /\ pipeline \in Pipelines
    /\ full \in BOOLEAN
    /\ solidIdx = 0
    /\ ppc = "start"
    /\ out = <<>>
    /\ ExecIdle

\* a mutant of PrintPipelineHeader: summary mode goes on to the solids
PrintPipelineHeaderNoReturn ==
    /\ ppc = "start"
    /\ out' = Append(out, HeaderLine(pipeline))
    /\ ppc' = "solids"
    /\ solidIdx' = 1
    /\ UNCHANGED <<pipeline, full>>
    /\ UNCHANGED execVars

\* the header line, and the return of summary mode
PrintPipelineHeader ==
    /\ ppc = "start"
    /\ out' = Append(out, HeaderLine(pipeline))
    /\ IF ~full
       THEN ppc' = "done" /\ solidIdx' = solidIdx
       ELSE ppc' = "solids" /\ solidIdx' = 1
    /\ UNCHANGED <<pipeline, full>>
    /\ UNCHANGED execVars

\* a mutant of PrintSolid: the solids are taken from the last to the first
PrintSolidReversed ==
    /\ ppc = "solids"
    /\ solidIdx <= Len(pipeline.solids)
    /\ out' = out \o SolidLines(pipeline.solids[Len(pipeline.solids) + 1 - solidIdx])
    /\ solidIdx' = solidIdx + 1
    /\ UNCHANGED <<pipeline, full, ppc>>
    /\ UNCHANGED execVars

\* one turn of the loop over pipeline.solids
PrintSolid ==
    /\ ppc = "solids"
    /\ solidIdx <= Len(pipeline.solids)
    /\ out' = out \o SolidLines(pipeline.solids[solidIdx])
    /\ solidIdx' = solidIdx + 1
    /\ UNCHANGED <<pipeline, full, ppc>>
    /\ UNCHANGED execVars

\* the loop over pipeline.solids is over and print_pipeline returns
PrintPipelineReturn ==
    /\ ppc = "solids"
    /\ solidIdx > Len(pipeline.solids)
    /\ ppc' = "done"
    /\ UNCHANGED <<pipeline, full, solidIdx, out>>
    /\ UNCHANGED execVars

NextPrint ==
    \/ PrintPipelineHeader
    \/ PrintSolid
    \/ PrintPipelineReturn

SpecPrint == InitPrint /\ [][NextPrint]_vars

----------------------------------------------------------------------------
(* Vocabulary of the properties *)

\* the positions of seq whose element passes Test, in increasing order
Idx(seq, Test(_)) ==
    SelectSeq([i \in 1..Len(seq) |-> i], LAMBDA i : Test(seq[i]))

IsUserCodeFailure(r) == ~r.success /\ r.reason = "USER_CODE_ERROR"
IsExpectationFailure(r) == ~r.success /\ r.reason = "EXPECTATION_FAILURE"
IsUnknownFailure(r) ==
    ~r.success /\ r.reason \notin {"USER_CODE_ERROR", "EXPECTATION_FAILURE"}

\* 1-based position of the first result of the stream that passes Test, 0 if none
FirstPos(Test(_)) ==
    LET hits == Idx(pipeline_iter, Test)
    IN  IF hits = <<>> THEN 0 ELSE hits[1]

FirstNonSuccess == FirstPos(LAMBDA r : ~r.success)
FirstAbortingFailure ==
    FirstPos(LAMBDA r : IsUserCodeFailure(r) \/ IsExpectationFailure(r))

Terminal == state \in {"Completed", "Aborted", "Failed"}

\* the solid names on the 'Metrics for' lines of the output
ReportedNames ==
    LET hs == SelectSeq(out, LAMBDA l : l.indent = 0 /\ l.text[1] = "Metrics for ")
    IN  [j \in 1..Len(hs) |-> hs[j].text[2]]

NamesOf(rs) == [j \in 1..Len(rs) |-> rs[j].solid.name]

----------------------------------------------------------------------------
(* C1 *)

----------------------------------------------------------------------------
(* C2 *)

\* the error log entries an ExpectationFailure result calls for
ExpectedLog(r) ==
    [j \in 1..Len(r.failed_expectation_results) |->
        [message |-> r.failed_expectation_results[j].message, solid |-> r.solid.name]]

\* C2: an ExpectationFailure result gets one error log entry per failed expectation,
\* in order, each with that expectation's message and the solid's name; they are all
\* there when the run ends, which it does with exit status 1; no other result gets
\* an error log entry.
C2_ErrorLogPerFailedExpectation ==
    /\ state = "Aborted" =>
         /\ IsExpectationFailure(result)
         /\ log = ExpectedLog(result)
         /\ exit_code = 1
    /\ state = "Logging" =>
         /\ IsExpectationFailure(result)
         /\ log = SubSeq(ExpectedLog(result), 1, expIdx - 1)
         /\ exit_code = -1
    /\ state \in {"Running", "Completed", "Failed"} => log = <<>>
    /\ exit_code = 1 => state = "Aborted"

\* C2 witness: the run ended with status 1 after logging two failed expectations of
\* a result that an unknown failure and a success preceded
C2_Witness ==
    /\ state = "Aborted"
    /\ exit_code = 1
    /\ Len(log) = 2
    /\ log[1].message # log[2].message
    /\ pulled = 3
    /\ IsUnknownFailure(pipeline_iter[1])
    /\ pipeline_iter[2].success

----------------------------------------------------------------------------
(* C3 *)

\* C3: when the first non-success result of the stream is a UserCodeFailure at
\* position k, the run ends Failed with that result's user_exception raised, the
\* reporter is never called, no line is printed, and nothing is logged.
C3_UserCodeFailurePropagates ==
    (FirstNonSuccess > 0 /\ IsUserCodeFailure(pipeline_iter[FirstNonSuccess]))
    => /\ reporterCalls = <<>>
       /\ out = <<>>
       /\ log = <<>>
       /\ state \in {"Running", "Failed"}
       /\ state = "Running" => raised = NoException /\ pulled < FirstNonSuccess
       /\ state = "Failed" =>
            /\ raised = pipeline_iter[FirstNonSuccess].user_exception
            /\ pulled = FirstNonSuccess
            /\ exit_code = -1

\* C3 witness: the exception of a UserCodeFailure was raised after one success,
\* with metrics in the store for it and a result left in the stream
C3_Witness ==
    /\ state = "Failed"
    /\ pulled = 2
    /\ Len(results) = 1
    /\ Len(pipeline_iter) = 3
    /\ context # <<>>
    /\ raised = "KeyError"

----------------------------------------------------------------------------
(* C4 *)

\* C4: on a stream of successes only, the run pulls every result and ends Completed
\* with exit status 0 and no exception, and the reporter is called once, with the
\* whole stream in stream order.
C4_AllSuccessCompletes ==
    (\A j \in 1..Len(pipeline_iter) : pipeline_iter[j].success)
    => /\ state \in {"Running", "Completed"}
       /\ results = SubSeq(pipeline_iter, 1, pulled)
       /\ raised = NoException
       /\ state = "Running" => reporterCalls = <<>> /\ out = <<>>
       /\ state = "Completed" =>
            /\ pulled = Len(pipeline_iter)
            /\ exit_code = 0
            /\ reporterCalls = <<pipeline_iter>>
            /\ ReportedNames = NamesOf(pipeline_iter)

\* C4 witness: a stream of three successes, not all of one solid, was reported
C4_Witness ==
    /\ state = "Completed"
    /\ Len(pipeline_iter) = 3
    /\ \A j \in 1..3 : pipeline_iter[j].success
    /\ pipeline_iter[1] # pipeline_iter[2]
    /\ Len(out) > 3

----------------------------------------------------------------------------
(* C5 *)

\* C5, as claimed: a failed result whose reason is neither USER_CODE_ERROR nor
\* EXPECTATION_FAILURE is never appended to the accumulated results, and the run
\* never ends Completed with status 0 after pulling one.
C5_UnknownFailureIsFatal ==
    /\ \A j \in 1..Len(results) : ~IsUnknownFailure(results[j])
    /\ (state = "Completed" /\ exit_code = 0) =>
          \A j \in 1..pulled : ~IsUnknownFailure(pipeline_iter[j])

----------------------------------------------------------------------------
(* C6 *)

\* C6: Aborted and Failed are terminal: once the result at position k that aborts
\* or fails the run (the first ExpectationFailure or UserCodeFailure) is pulled, no
\* later result is pulled, so exactly k+1 results are drawn whatever the stream's
\* length.
C6_NoPullAfterFailure ==
    /\ FirstAbortingFailure > 0 =>
         /\ pulled <= FirstAbortingFailure
         /\ state # "Completed"
    /\ state \in {"Logging", "Aborted", "Failed"} =>
         /\ FirstAbortingFailure > 0
         /\ pulled = FirstAbortingFailure
    /\ state \in {"Aborted", "Failed"} => ~ENABLED Next

\* C6 witness: the run has ended Aborted on the second result of a stream of three
C6_Witness ==
    /\ state = "Aborted"
    /\ pulled = 2
    /\ Len(pipeline_iter) = 3

----------------------------------------------------------------------------
(* C7 *)

\* what the covering query {solid: s, input: i} returns
TaggedSolidInput(s, i) ==
    metrics_covering_context(context, [solid |-> s, input |-> i])

\* what the exact-match query {solid: s} returns
TaggedSolidOnly(s) ==
    metrics_matching_context(context, [solid |-> s])

\* the lines of metrics ms at indent n
Listed(n, ms) ==
    [j \in 1..Len(ms) |->
        [indent |-> n, text |-> <<ms[j].metric_name, ": ", ms[j].value>>]]

\* body is the lines after a result's header: an 'Input' subheader with its
\* metrics for each input of r that has any, in declared order, then the solid's own
BodyAsSpecified(body, r) ==
    LET s == r.solid.name
        subs == Idx(body, LAMBDA l : l.indent = 4 /\ l.text[1] = "Input ")
        shown == SelectSeq(r.solid.inputs,
                     LAMBDA i : TaggedSolidInput(s, i.name) # <<>>)
        end(j) == subs[j] + Len(TaggedSolidInput(s, shown[j].name))
        rest == IF subs = <<>> THEN 1 ELSE end(Len(subs)) + 1
    IN  /\ Len(subs) = Len(shown)
        /\ subs # <<>> => subs[1] = 1
        /\ \A j \in 1..Len(subs) :
              /\ body[subs[j]].text = <<"Input ", shown[j].name>>
              /\ end(j) <= Len(body)
              /\ SubSeq(body, subs[j] + 1, end(j))
                    = Listed(8, TaggedSolidInput(s, shown[j].name))
              /\ j < Len(subs) => subs[j + 1] = end(j) + 1
        /\ SubSeq(body, rest, Len(body)) = Listed(4, TaggedSolidOnly(s))
        /\ Len(body) = rest - 1 + Len(TaggedSolidOnly(s))

\* C7: the report is, result by result in sequence order, one 'Metrics for <solid>'
\* line, then for each input of the solid in declared order an 'Input <input>'
\* subheader with the metrics covering {solid, input} when there is at least one
\* and nothing when there is none, then the metrics matching {solid} exactly at the
\* shallower indent; metrics come in store order and the lines of two results are
\* never interleaved.
C7_MetricsReportLayout ==
    state = "Reported" =>
        LET hs == Idx(out, LAMBDA l : l.indent = 0)
            n == Len(results)
            last(k) == IF k < n THEN hs[k + 1] - 1 ELSE Len(out)
        IN  /\ Len(hs) = n
            /\ n = 0 => out = <<>>
            /\ n > 0 => hs[1] = 1
            /\ \A k \in 1..n :
                  /\ out[hs[k]].text = <<"Metrics for ", results[k].solid.name>>
                  /\ BodyAsSpecified(SubSeq(out, hs[k] + 1, last(k)), results[k])

\* C7 witness: two results of different solids were reported; the first solid has an
\* input with two covering metrics, one of them tagged beyond {solid, input}, an input
\* with none, and a metric of its own
C7_Witness ==
    /\ state = "Reported"
    /\ Len(results) = 2
    /\ results[1].solid.name = "A"
    /\ results[2].solid.name = "B"
    /\ Len(TaggedSolidInput("A", "x")) = 2
    /\ TaggedSolidInput("A", "y") = <<>>
    /\ TaggedSolidOnly("A") # <<>>
    /\ \E j \in 1..Len(context) : "column" \in DOMAIN context[j].tags

----------------------------------------------------------------------------
(* C8, C9, C10 *)

IsSolidLine(l) == l.indent = 4 /\ l.text[1] = "Solid: "
IsNameLine(l) == l.indent = 12 /\ l.text[1] = "Name: "
IsSourcesLine(l) == l.indent = 16 /\ l.text = <<"Sources:">>
IsSourceLine(l) == l.indent = 20
IsMaterializationLine(l) == l.indent = 16 /\ l.text # <<"Sources:">>

SolidNames == [k \in 1..Len(pipeline.solids) |-> pipeline.solids[k].name]

\* the pieces of the output that are names of solids of the pipeline, in order
SolidNamesPrinted ==
    SelectSeq(Flatten([j \in 1..Len(out) |-> out[j].text]),
              LAMBDA piece : \E k \in 1..Len(SolidNames) : SolidNames[k] = piece)

\* C8, as claimed: print_pipeline with full == false emits the pipeline name and the
\* ordered list of the pipeline's solid names, in the order of full mode.
C8_SummaryListsSolids ==
    (ppc = "done" /\ ~full) =>
        /\ out[1].text[2] = pipeline.name
        /\ SolidNamesPrinted = SolidNames

\* C8, amended: print_pipeline with full == false emits exactly one line, the
\* header with the pipeline's name and description that full mode starts with, and
\* no solid name at all; solid names are printed in full mode only.
C8_SummaryIsHeaderOnly ==
    /\ ppc = "done" =>
         /\ out # <<>>
         /\ out[1] = [indent |-> 0,
                      text |-> <<"Pipeline: ", pipeline.name,
                                 " Description: ", pipeline.description>>]
    /\ (ppc = "done" /\ ~full) =>
         /\ Len(out) = 1
         /\ SolidNamesPrinted = <<>>

\* C8 witness: summary mode has returned on a pipeline of three solids
C8_Witness ==
    /\ ppc = "done"
    /\ ~full
    /\ Len(pipeline.solids) = 3

\* the lines of the output from the k-th 'Solid:' line to the line before the next
SolidSegment(k) ==
    LET sp == Idx(out, IsSolidLine)
    IN  SubSeq(out, sp[k], IF k < Len(sp) THEN sp[k + 1] - 1 ELSE Len(out))

\* C9: full mode emits, after the header line, one 'Solid: <name>' line per solid,
\* the names being those of pipeline.solids in the same order, and the input, source
\* and materialization lines of a solid lie between its 'Solid:' line and the next.
C9_SolidBlocksInPipelineOrder ==
    (ppc = "done" /\ full) =>
        LET sp == Idx(out, IsSolidLine)
            solids == pipeline.solids
        IN  /\ out[1].indent = 0 /\ out[1].text[1] = "Pipeline: "
            /\ [k \in 1..Len(sp) |-> out[sp[k]].text[2]] = SolidNames
            /\ sp # <<>> => sp[1] = 2
            /\ sp = <<>> => Len(out) = 1
            /\ \A k \in 1..Len(sp) :
                  LET seg == SolidSegment(k)
                      names == SelectSeq(seg, IsNameLine)
                      srcs == SelectSeq(seg, IsSourceLine)
                      mats == SelectSeq(seg, IsMaterializationLine)
                      declared == Flatten([j \in 1..Len(solids[k].inputs) |->
                                      solids[k].inputs[j].sources])
                      outputs == solids[k].output.materializations
                  IN  /\ [j \in 1..Len(names) |-> names[j].text[2]]
                            = [j \in 1..Len(solids[k].inputs) |->
                                  solids[k].inputs[j].name]
                      /\ [j \in 1..Len(srcs) |-> srcs[j].text[1]]
                            = [j \in 1..Len(declared) |-> declared[j].source_type]
                      /\ [j \in 1..Len(mats) |-> mats[j].text[1]]
                            = [j \in 1..Len(outputs) |-> outputs[j].name]

\* C9 witness: full mode has returned on a pipeline of three solids, at least one
\* with sources and one with materializations
C9_Witness ==
    /\ ppc = "done"
    /\ full
    /\ Len(pipeline.solids) = 3
    /\ pipeline.solids[1].name # "load"
    /\ \E j \in 1..Len(out) : IsSourceLine(out[j])
    /\ \E j \in 1..Len(out) : IsMaterializationLine(out[j])

\* C10, as claimed: a 'Sources:' listing is never emitted for an input that has an
\* upstream producer, whose only line is 'Name: <input> (depends on <producer>)'.
C10_NoSourcesUnderProducer ==
    \A p \in 1..Len(out) :
        (ppc # "idle" /\ IsNameLine(out[p]) /\ Len(out[p].text) = 5 /\ p < Len(out))
        => ~IsSourcesLine(out[p + 1])

\* C10, amended: each input gets exactly one 'Name:' line, 'Name: <input> (depends
\* on <producer>)' if it has an upstream producer and 'Name: <input>' if not; whether
\* or not it has a producer, that line is followed by 'Sources:' and the input's
\* sources in declared order if and only if the input declares at least one source.
C10_NameLineThenDeclaredSources ==
    (ppc = "done" /\ full) =>
        LET np == Idx(out, IsNameLine)
            inputs == Flatten([k \in 1..Len(pipeline.solids) |->
                          pipeline.solids[k].inputs])
        IN  /\ Len(np) = Len(inputs)
            /\ \A j \in 1..Len(np) :
                  LET i == inputs[j]
                      p == np[j]
                      n == Len(i.sources)
                  IN  /\ i.depends_on # None =>
                            out[p].text = <<"Name: ", i.name, " (depends on ",
                                            i.depends_on[1].name, ")">>
                      /\ i.depends_on = None => out[p].text = <<"Name: ", i.name>>
                      /\ n = 0 => ~IsSourcesLine(out[p + 1])
                      /\ n > 0 =>
                            /\ IsSourcesLine(out[p + 1])
                            /\ \A s \in 1..n :
                                  /\ IsSourceLine(out[p + 1 + s])
                                  /\ out[p + 1 + s].text[1] = i.sources[s].source_type
                            /\ ~IsSourceLine(out[p + 2 + n])

\* C10 witness: full mode has returned with a 'Sources:' listing under the line of
\* an input that depends on a producer, and an input with neither in the output
C10_Witness ==
    /\ ppc = "done"
    /\ full
    /\ \E p \in 1..(Len(out) - 1) :
          IsNameLine(out[p]) /\ Len(out[p].text) = 5 /\ IsSourcesLine(out[p + 1])
    /\ \E p \in 1..(Len(out) - 1) :
          IsNameLine(out[p]) /\ Len(out[p].text) = 2 /\ ~IsSourcesLine(out[p + 1])
    /\ \E p \in 1..(Len(out) - 1) :
          IsNameLine(out[p]) /\ Len(out[p].text) = 5 /\ ~IsSourcesLine(out[p + 1])

====
